---------------------------- MODULE Spec2Model ----------------------------
(* Character-sheet aggregate engine of wod-character-sheets:               *)
(* create / update of VTM and HTR characters with their child collections, *)
(* over a PostgreSQL (READ COMMITTED) store accessed through SQLAlchemy    *)
(* sessions (autoflush off).                                               *)
EXTENDS Integers, Sequences, FiniteSets, TLC

VARIABLES
    chars,   \* committed root rows: chars[tpl] is a function id -> [user_id, f]
    rows,    \* committed child rows, grouped in batches (one per inserting transaction)
    idseq,   \* idseq[tpl]: next value of the table's id sequence
    clock,   \* number of transactions begun so far (source of now())
    req,     \* req[p]: the request worker p is executing, with its session state
    resp,    \* resp[p]: the response to the request worker p finished last
    focus,   \* the collection keys the clients of this behaviour submit
    files,   \* files[u]: the portrait file saved under url u is in the image directory
    audit,   \* the committed rows of audit_logs
    outage,  \* TRUE while an insert into audit_logs fails
    prefs    \* prefs[u]: the committed user_preferences row of user u

vars == <<chars, rows, idseq, clock, req, resp, focus, files, audit, outage, prefs>>

(***************************************************************************)
(* Bounds                                                                  *)
(***************************************************************************)
MaxLen == 2      \* longest submitted collection list
MaxTxns == 3     \* transactions begun in one behaviour
MaxId == 1       \* ids handed out per character table
MaxCreates == 4  \* creates begun in one behaviour of the slot scenarios
MaxLife == 3     \* transactions begun in one behaviour of the lifecycle scenarios
MaxUrls == 2     \* portrait files saved in one behaviour

\* the bounds in force in the behaviour: the slot scenarios fill a table, the
\* lifecycle scenarios create a sheet again after a delete, the others work on
\* one sheet
TxnLimit ==
    CASE focus.main = "slots" -> MaxCreates
      [] focus.main \in {"life", "portraits"} -> MaxLife
      [] OTHER -> MaxTxns
IdLimit ==
    CASE focus.main = "slots" -> MaxCreates
      [] focus.main = "life" -> MaxId + 1
      [] OTHER -> MaxId

(***************************************************************************)
(* Program constants                                                       *)
(***************************************************************************)
CHARACTER_LIMIT_PER_USER == 3

Templates == {"vtm", "htr"}

\* collection keys in the order update_character handles them
VTMColls == <<"touchstones", "backgrounds", "disciplines", "xp_log">>
HTRColls == <<"touchstones", "advantages", "flaws", "xp_log", "edges", "perks", "equipment">>
\* collection keys create_character pops from the payload
VTMCreateColls == <<"touchstones", "backgrounds", "disciplines", "xp_log">>
HTRCreateColls == <<"touchstones", "advantages", "flaws", "xp_log">>

Range(s) == {s[i] : i \in DOMAIN s}

UpdateColls(tpl) == IF tpl = "vtm" THEN VTMColls ELSE HTRColls
CreateColls(tpl) == IF tpl = "vtm" THEN VTMCreateColls ELSE HTRCreateColls

\* relationship attributes of HTRCharacter that create_character does not pop
HTRRelationshipKeys == {"edges", "perks", "equipment"}

\* integer columns of the two character tables that the model tracks
DamageFields == {"health_max", "health_superficial", "health_aggravated",
                 "willpower_max", "willpower_superficial", "willpower_aggravated"}
ExpFields == {"exp_total", "exp_spent", "exp_available"}
\* String(500) columns holding the url of a portrait slot; the model tracks two
\* of the six slots, names a url by a number and writes 0 for no url
PortraitFields == {"portrait_face", "portrait_body"}
VTMColumns == {"strength", "athletics", "generation", "blood_potency", "hunger",
               "humanity_current"} \cup DamageFields \cup ExpFields \cup PortraitFields
HTRColumns == {"strength", "athletics"} \cup DamageFields \cup ExpFields \cup PortraitFields
Columns(tpl) == IF tpl = "vtm" THEN VTMColumns ELSE HTRColumns

\* Column(Integer, default=...) of VTMCharacter / HTRCharacter
ColumnDefault(c) ==
    CASE c = "strength" -> 1
      [] c = "athletics" -> 0
      [] c = "generation" -> 13
      [] c = "blood_potency" -> 0
      [] c = "hunger" -> 1
      [] c = "humanity_current" -> 7
      [] c = "health_max" -> 6
      [] c = "willpower_max" -> 5
      [] OTHER -> 0

(***************************************************************************)
(* sanitize.py                                                             *)
(***************************************************************************)
ScriptTag == "<script>x</script>"

\* the script-tag string is removed whole, other strings of the model have
\* nothing the regular expressions match
sanitize_string(s) == IF s = ScriptTag THEN "" ELSE s

\* an item of a child collection as submitted: name is the key the presence
\* check reads (name / type / edge_id / perk_id), edge_id the second key of a
\* perk, n the number (dots / level / amount); an xp_log entry has
\* name = type ("add" | "spend") and ok = FALSE when one of the four keys
\* date, type, amount, reason is missing
sanitize_item(it) == [it EXCEPT !.name = sanitize_string(it.name),
                                !.edge_id = sanitize_string(it.edge_id)]

sanitize_list(l) == [i \in DOMAIN l |-> sanitize_item(l[i])]

\* keys of the per-template whitelist the model tracks
vtm_fields == VTMColumns \cup Range(VTMColls)
htr_fields == HTRColumns \cup Range(HTRColls)

Restrict(fn, D) == [x \in (DOMAIN fn) \cap D |-> fn[x]]

\* a payload is [f |-> scalar keys -> Int, c |-> collection keys -> value];
\* the value of a collection key is a list of items, or (xp_log) a string
\* that json.loads rejects
Value(l) == [parses |-> TRUE, items |-> l]
BadJson == [parses |-> FALSE, items |-> <<>>]

\* mutant: sanitize_dict is called without the whitelist
sanitize_character_data_NoWhitelist(data, game_type) ==
    [f |-> data.f,
     c |-> [k \in DOMAIN data.c |-> [data.c[k] EXCEPT !.items = sanitize_list(@)]]]

sanitize_character_data(data, game_type) ==
    LET allowed == IF game_type = "vtm" THEN vtm_fields ELSE htr_fields
        c == Restrict(data.c, allowed)
    IN  [f |-> Restrict(data.f, allowed),
         c |-> [k \in DOMAIN c |-> [c[k] EXCEPT !.items = sanitize_list(@)]]]


(***************************************************************************)
(* schemas.py: VTMCharacterBase                                            *)
(***************************************************************************)
\* the tracked fields in the order the class declares them
FieldOrder == <<"generation", "strength", "athletics", "hunger", "blood_potency",
                "health_max", "health_superficial", "health_aggravated",
                "willpower_max", "willpower_superficial", "willpower_aggravated",
                "humanity_current", "exp_total", "exp_spent", "exp_available",
                "portrait_face", "portrait_body">>

FieldIndex(f) == CHOOSE i \in DOMAIN FieldOrder : FieldOrder[i] = f

\* Field(None, ge=..., le=...); Field(None, max_length=500) of a portrait url
\* holds for every url of the model
FieldGe(f) ==
    CASE f \in {"generation", "strength", "health_max", "willpower_max"} -> 1
      [] OTHER -> 0

HasLe(f) == f \notin ExpFields

FieldLe(f) ==
    CASE f = "generation" -> 16
      [] f \in {"strength", "athletics", "hunger"} -> 5
      [] OTHER -> 10

FieldInRange(f, v) ==
    f \in PortraitFields \/ (v >= FieldGe(f) /\ (HasLe(f) => v <= FieldLe(f)))

\* the fields of data that passed their own Field constraints
RangeValid(data) == {f \in DOMAIN data : FieldInRange(f, data[f])}

\* `values` handed to a validator of field f: the fields declared before f
\* that validated (a field not supplied is None there)
ValuesBefore(data, f) ==
    Restrict(data, {g \in RangeValid(data) : FieldIndex(g) < FieldIndex(f)})

\* values.get(key, 0) or 0
GetOr0(values, key) == IF key \in DOMAIN values THEN values[key] ELSE 0

\* validate_health_damage / validate_willpower_damage: TRUE when it raises
validate_damage_raises(values, kmax, ksup, kagg) ==
    IF kmax \in DOMAIN values /\ values[kmax] # 0
    THEN GetOr0(values, ksup) + GetOr0(values, kagg) > values[kmax]
    ELSE FALSE

\* validate_exp_available: the value the validator returns for v
validate_exp_available(v, values) ==
    IF "exp_total" \in DOMAIN values /\ "exp_spent" \in DOMAIN values
       /\ values["exp_total"] # 0 /\ values["exp_spent"] # 0
       /\ v # values["exp_total"] - values["exp_spent"]
    THEN values["exp_total"] - values["exp_spent"]
    ELSE v

\* pydantic ignores the keyword arguments the class does not declare
Declared(kwargs) == Restrict(kwargs, Range(FieldOrder))

\* the fields pydantic reports in ValidationError.errors()
ValidationErrors(kwargs) ==
    LET data == Declared(kwargs)
        ranged == (DOMAIN data) \ RangeValid(data)
        health == {f \in {"health_superficial", "health_aggravated"} \cap RangeValid(data) :
                     validate_damage_raises(ValuesBefore(data, f), "health_max",
                                            "health_superficial", "health_aggravated")}
        willpower == {f \in {"willpower_superficial", "willpower_aggravated"} \cap RangeValid(data) :
                     validate_damage_raises(ValuesBefore(data, f), "willpower_max",
                                            "willpower_superficial", "willpower_aggravated")}
    IN  ranged \cup health \cup willpower

\* VTMCharacterUpdate(**data).model_dump(exclude_none=True), for valid data
model_dump(kwargs) ==
    LET data == Declared(kwargs)
    IN  [f \in DOMAIN data |->
            IF f = "exp_available"
            THEN validate_exp_available(data[f], ValuesBefore(data, f))
            ELSE data[f]]


(***************************************************************************)
(* models_new.py: child rows and the relationships that read them          *)
(***************************************************************************)
PositionedColls == {"touchstones", "backgrounds", "disciplines", "advantages",
                    "flaws", "edges", "perks", "equipment"}

\* the presence check of the insert loops (`if ts_data.get('name'):` ...)
Present(coll, it) ==
    CASE coll = "xp_log" -> TRUE
      [] coll = "perks" -> it.name # "" /\ it.edge_id # ""
      [] OTHER -> it.name # ""

\* mutant: display_order counts only the rows inserted so far
RECURSIVE InsertLoop_Dense(_, _, _)
InsertLoop_Dense(coll, data, i) ==
    IF i > Len(data) THEN <<>>
    ELSE (IF Present(coll, data[i])
          THEN <<IF coll = "xp_log" THEN [it |-> data[i]]
                 ELSE [it |-> data[i],
                       display_order |-> Cardinality({j \in 1..i - 1 : Present(coll, data[j])})]>>
          ELSE <<>>) \o InsertLoop_Dense(coll, data, i + 1)

\* `for i, x in enumerate(data): if present(x): db.add(Row(..., display_order=i))`
\* (an xp_log row has no display_order column)
RECURSIVE InsertLoop(_, _, _)
InsertLoop(coll, data, i) ==
    IF i > Len(data) THEN <<>>
    ELSE (IF Present(coll, data[i])
          THEN <<IF coll = "xp_log" THEN [it |-> data[i]]
                 ELSE [it |-> data[i], display_order |-> i - 1]>>
          ELSE <<>>) \o InsertLoop(coll, data, i + 1)

\* entry_data['date'], ['type'], ['amount'], ['reason'] raise KeyError
InsertRaises(coll, data) == coll = "xp_log" /\ \E i \in DOMAIN data : ~data[i].ok

\* the rows one transaction inserts into one collection; created_at is now(),
\* the start time of the transaction, the same for all of them
Batch(tpl, cid, coll, stamp, data) ==
    LET rs == InsertLoop(coll, data, 1)
    IN  IF rs = <<>> THEN {}
        ELSE {[tpl |-> tpl, cid |-> cid, coll |-> coll, stamp |-> stamp, rs |-> rs]}

Batches(db, tpl, cid, coll) ==
    {b \in db : b.tpl = tpl /\ b.cid = cid /\ b.coll = coll}

\* the stored rows of a collection, each named by its batch and place in it
StoredRows(db, tpl, cid, coll) ==
    UNION {{<<b, i>> : i \in DOMAIN b.rs} : b \in Batches(db, tpl, cid, coll)}

\* ORDER BY display_order, or ORDER BY created_at DESC for xp_log: r may come
\* before s in the result
MayPrecede(coll, r, s) ==
    IF coll = "xp_log" THEN r[1].stamp >= s[1].stamp
    ELSE r[1].rs[r[2]].display_order <= s[1].rs[s[2]].display_order

\* every list a read of the relationship can return (rows that tie in the
\* ORDER BY come in any order)
ReadResults(db, tpl, cid, coll) ==
    LET R == StoredRows(db, tpl, cid, coll)
        n == Cardinality(R)
        orders == {o \in [1..n -> R] :
                      /\ \A i, j \in 1..n : i # j => o[i] # o[j]
                      /\ \A i \in 1..n - 1 : MayPrecede(coll, o[i], o[i + 1])}
    IN  {[i \in 1..n |-> o[i][1].rs[o[i][2]].it] : o \in orders}


(***************************************************************************)
(* Requests                                                                *)
(***************************************************************************)
\* the request workers
Procs == {1, 2}

Idle == [pc |-> "idle"]

Response(op, status, tpl, id, who, data, errors) ==
    [op |-> op, status |-> status, tpl |-> tpl, id |-> id, who |-> who,
     f |-> data.f, c |-> data.c, errors |-> errors,
     stamp |-> -1,      \* of a committed transaction: its start time
     dirty |-> FALSE]   \* of a rolled back one: it had deleted or added rows

NoData == [f |-> <<>>, c |-> <<>>]

NoResponse == Response("none", "none", "none", 0, 0, NoData, {})

Init ==
    /\ chars = [t \in Templates |-> <<>>]
    /\ rows = {}
    /\ idseq = [t \in Templates |-> 1]
    /\ clock = 0
    /\ req = [p \in Procs |-> Idle]
    /\ resp = [p \in Procs |-> NoResponse]
    /\ files = <<>>
    /\ audit = {}
    /\ outage = FALSE
    /\ prefs = <<>>

\* audit.py: log_audit_event adds a row in a transaction of its own; when the
\* insert raises, the exception is logged and the row is not written
log_audit_event(event_type, who, target_id, target_type) ==
    IF outage THEN audit
    ELSE audit \cup {[event_type |-> event_type, user_id |-> who.id,
                      target_id |-> target_id, target_type |-> target_type]}

\* utils.py: is_storyteller (STORYTELLER_DISCORD_ID is not set)
is_storyteller(user) == user.role \in {"storyteller", "admin"}

\* mutant: the query filters on the id alone
OwnedBy_AnyUser(tpl, id, who) == id \in DOMAIN chars[tpl]

\* db.query(Character).filter(id == character_id, user_id == user['id']).first()
OwnedBy(tpl, id, who) ==
    id \in DOMAIN chars[tpl] /\ chars[tpl][id].user_id = who.id

\* mutant: a key the payload omits is read as an empty list, as create does
ParseUpdateColls_DefaultEmpty(c) ==
    [k \in Range(VTMColls) \cup Range(HTRColls) |->
        IF k \in DOMAIN c /\ c[k].parses THEN c[k].items ELSE <<>>]

\* json.loads of an xp_log string that does not parse: None on update
ParseUpdateColls(c) == [k \in {x \in DOMAIN c : c[x].parses} |-> c[k].items]

\* data.pop(key, []) and json.loads falling back to [] on create
ParseCreateColls(tpl, c) ==
    [k \in Range(CreateColls(tpl)) |->
        IF k \in DOMAIN c /\ c[k].parses THEN c[k].items ELSE <<>>]

\* index of the first collection at or after k that the payload supplies
RECURSIVE NextSupplied(_, _, _)
NextSupplied(order, colls, k) ==
    IF k > Len(order) \/ order[k] \in DOMAIN colls THEN k
    ELSE NextSupplied(order, colls, k + 1)

PcAt(order, k) == IF k > Len(order) THEN "commit" ELSE "sync"

\* mutant: the answer tells an id that exists from one that does not
CharacterNotFound_Leaks(op, tpl, id, who) ==
    Response(op, IF id \in DOMAIN chars[tpl] THEN "forbidden" ELSE "notfound",
             tpl, id, who, NoData, {})

\* exceptions.py: CharacterNotFound(character_id), answered with status 404 and
\* a body made of the requested id
CharacterNotFound(op, tpl, id, who) ==
    Response(op, "notfound", tpl, id, who, NoData, {})

\* update_character up to the end of the scalar setattr loop
UpdateBegin(p, who, tpl, id, raw) ==
    /\ req[p] = Idle
    /\ clock < TxnLimit
    /\ LET data == sanitize_character_data(raw, tpl)
           colls == ParseUpdateColls(data.c)
           errors == IF tpl = "vtm" THEN ValidationErrors(data.f) ELSE {}
           update_data == IF tpl = "vtm" THEN model_dump(data.f) ELSE data.f
           k == NextSupplied(UpdateColls(tpl), colls, 1)
       IN  IF ~OwnedBy(tpl, id, who)
           THEN /\ resp' = [resp EXCEPT ![p] = CharacterNotFound("update", tpl, id, who)]
                /\ UNCHANGED <<chars, rows, idseq, clock, req, focus, prefs, files, audit, outage>>
           ELSE IF errors # {}
           THEN /\ resp' = [resp EXCEPT ![p] = Response("update", "validation", tpl, id, who, [f |-> raw.f, c |-> <<>>], errors)]
                /\ UNCHANGED <<chars, rows, idseq, clock, req, focus, prefs, files, audit, outage>>
           ELSE /\ req' = [req EXCEPT ![p] =
                            [pc |-> PcAt(UpdateColls(tpl), k), op |-> "update",
                             tpl |-> tpl, id |-> id, who |-> who, raw |-> raw,
                             stamp |-> clock, loaded |-> chars[tpl][id].f,
                             update_data |-> update_data, colls |-> colls,
                             k |-> k, deleted |-> {}, adds |-> {}, snap |-> {}]]
                /\ resp' = [resp EXCEPT ![p] = NoResponse]
                /\ clock' = clock + 1
                /\ UNCHANGED <<chars, rows, idseq, focus, prefs, files, audit, outage>>

\* what the 500 response says of the exception: HTR update_character catches
\* it and sends str(e) as "details"; elsewhere the exception handlers answer
\* with a fixed message
FailureBody(op, tpl) ==
    IF op = "update" /\ tpl = "htr" THEN {"str(e)"} ELSE {}

\* mutant: the DELETEs that had run stay in effect
Rollback_KeepsDeletes(p) ==
    /\ req' = [req EXCEPT ![p] = Idle]
    /\ resp' = [resp EXCEPT ![p] =
                  [Response(req[p].op, "error", req[p].tpl, req[p].id, req[p].who, NoData,
                           FailureBody(req[p].op, req[p].tpl))
                      EXCEPT !.dirty = req[p].deleted \cup req[p].adds # {}]]
    /\ rows' = rows \ req[p].deleted
    /\ UNCHANGED <<chars, idseq, clock, focus, prefs, files, audit, outage>>

\* db.rollback() / db.close() after an exception: nothing of the session is kept
Rollback(p) ==
    /\ req' = [req EXCEPT ![p] = Idle]
    /\ resp' = [resp EXCEPT ![p] =
                  [Response(req[p].op, "error", req[p].tpl, req[p].id, req[p].who, NoData,
                           FailureBody(req[p].op, req[p].tpl))
                      EXCEPT !.dirty = req[p].deleted \cup req[p].adds # {}]]
    /\ UNCHANGED <<chars, rows, idseq, clock, focus, prefs, files, audit, outage>>

\* rows another open transaction has deleted are locked until it ends
LockedByOther(p, bs) ==
    \E q \in DOMAIN req : q # p /\ req[q] # Idle /\ req[q].deleted \cap bs # {}

\* the insert loop that follows the DELETE of collection number r.k
AfterDelete(p, del) ==
    LET r == req[p]
        order == UpdateColls(r.tpl)
        key == order[r.k]
        k == NextSupplied(order, r.colls, r.k + 1)
    IN  IF InsertRaises(key, r.colls[key])
        THEN Rollback(p)
        ELSE /\ req' = [req EXCEPT ![p] =
                         [r EXCEPT !.deleted = r.deleted \cup del,
                                   !.adds = r.adds \cup Batch(r.tpl, r.id, key, r.stamp, r.colls[key]),
                                   !.k = k, !.pc = PcAt(order, k), !.snap = {}]]
             /\ UNCHANGED <<chars, rows, idseq, clock, resp, focus, prefs, files, audit, outage>>

\* `if x_data is not None:` db.query(Row).filter(character_id == id).delete(),
\* then the insert loop
UpdateSync(p) ==
    /\ req[p] # Idle /\ req[p].pc = "sync"
    /\ LET r == req[p]
           visible == Batches(rows, r.tpl, r.id, UpdateColls(r.tpl)[r.k])
       IN  IF LockedByOther(p, visible)
           THEN /\ req' = [req EXCEPT ![p] = [r EXCEPT !.pc = "blocked", !.snap = visible]]
                /\ UNCHANGED <<chars, rows, idseq, clock, resp, focus, prefs, files, audit, outage>>
           ELSE AfterDelete(p, visible)

\* the DELETE resumes when the locking transaction has ended: rows that are
\* gone are skipped, rows committed after the statement began are not seen
UpdateResume(p) ==
    /\ req[p] # Idle /\ req[p].pc = "blocked"
    /\ ~LockedByOther(p, req[p].snap)
    /\ AfterDelete(p, req[p].snap \cap rows)

\* the UPDATE the flush emits: only attributes whose value differs from the
\* loaded one
Flush(stored, loaded, update_data) ==
    [c \in DOMAIN stored |->
        IF c \in DOMAIN update_data /\ update_data[c] # loaded[c]
        THEN update_data[c] ELSE stored[c]]

\* `if hasattr(character, key): setattr(character, key, value)` for the columns
\* of the root row, and the UPDATE the flush emits for them
SetAttrs(row, loaded, update_data) ==
    [user_id |-> IF "user_id" \in DOMAIN update_data THEN update_data["user_id"]
                 ELSE row.user_id,
     created_at |-> IF "created_at" \in DOMAIN update_data THEN update_data["created_at"]
                    ELSE row.created_at,
     f |-> Flush(row.f, loaded, update_data)]

\* mutant: the flush inserts the new rows but the old ones are not removed
UpdateCommit_KeepsOldRows(p) ==
    /\ req[p] # Idle /\ req[p].op = "update" /\ req[p].pc = "commit"
    /\ LET r == req[p]
       IN  /\ chars' = [chars EXCEPT ![r.tpl][r.id].f = Flush(@, r.loaded, r.update_data)]
           /\ rows' = rows \cup r.adds
           /\ resp' = [resp EXCEPT ![p] =
                         [Response("update", "ok", r.tpl, r.id, r.who, r.raw, {})
                             EXCEPT !.stamp = r.stamp]]
    /\ req' = [req EXCEPT ![p] = Idle]
    /\ audit' = IF req[p].tpl = "htr"
                THEN log_audit_event("character_update", req[p].who, req[p].id, "htr_character")
                ELSE audit
    /\ UNCHANGED <<idseq, clock, focus, prefs, files, outage>>

\* mutant: an audit entry that cannot be written undoes the update
UpdateCommit_AuditUndoes(p) ==
    /\ req[p] # Idle /\ req[p].op = "update" /\ req[p].pc = "commit"
    /\ LET r == req[p]
           undone == r.tpl = "htr" /\ outage
       IN  /\ chars' = IF undone THEN chars
                       ELSE [chars EXCEPT ![r.tpl][r.id].f = Flush(@, r.loaded, r.update_data)]
           /\ rows' = IF undone THEN rows ELSE (rows \ r.deleted) \cup r.adds
           /\ resp' = [resp EXCEPT ![p] =
                         [Response("update", "ok", r.tpl, r.id, r.who, r.raw, {})
                             EXCEPT !.stamp = r.stamp]]
    /\ req' = [req EXCEPT ![p] = Idle]
    /\ audit' = IF req[p].tpl = "htr"
                THEN log_audit_event("character_update", req[p].who, req[p].id, "htr_character")
                ELSE audit
    /\ UNCHANGED <<idseq, clock, focus, prefs, files, outage>>

\* db.commit() of update_character, and the audit entry the HTR route writes
\* after it; when the root row is gone (deleted by a transaction that
\* committed since this one loaded it) the UPDATE matches no row, the INSERTs
\* break the foreign key and db.refresh finds nothing: the request fails
UpdateCommit(p) ==
    /\ req[p] # Idle /\ req[p].op = "update" /\ req[p].pc = "commit"
    /\ LET r == req[p]
           new_id == IF "id" \in DOMAIN r.update_data THEN r.update_data["id"] ELSE r.id
           kept == (rows \ r.deleted) \cup r.adds
           \* a new primary key that is taken, or child rows still naming the old one
           refused == /\ new_id # r.id
                      /\ \/ new_id \in DOMAIN chars[r.tpl]
                         \/ \E b \in kept : b.tpl = r.tpl /\ b.cid = r.id
       IN  IF r.id \notin DOMAIN chars[r.tpl] \/ refused
           THEN Rollback(p)
           ELSE /\ chars' =
                     IF new_id = r.id
                     THEN [chars EXCEPT ![r.tpl][r.id] = SetAttrs(@, r.loaded, r.update_data)]
                     ELSE [chars EXCEPT ![r.tpl] =
                              [i \in (DOMAIN chars[r.tpl] \ {r.id}) \cup {new_id} |->
                                  IF i = new_id
                                  THEN SetAttrs(chars[r.tpl][r.id], r.loaded, r.update_data)
                                  ELSE chars[r.tpl][i]]]
                /\ rows' = (rows \ r.deleted) \cup r.adds
                /\ resp' = [resp EXCEPT ![p] =
                              [Response("update", "ok", r.tpl, r.id, r.who, r.raw, {})
                                  EXCEPT !.stamp = r.stamp]]
                /\ req' = [req EXCEPT ![p] = Idle]
                /\ audit' = IF r.tpl = "htr"
                            THEN log_audit_event("character_update", r.who, r.id, "htr_character")
                            ELSE audit
                /\ UNCHANGED <<idseq, clock, focus, prefs, files, outage>>

\* a storage fault while the transaction is open
Fault(p) ==
    /\ req[p] # Idle
    /\ Rollback(p)


\* mutant: the count runs over the sheets of both templates
character_count_AllTemplates(tpl, who) ==
    Cardinality({i \in DOMAIN chars["vtm"] : chars["vtm"][i].user_id = who.id})
        + Cardinality({i \in DOMAIN chars["htr"] : chars["htr"][i].user_id = who.id})

\* db.query(Character).filter(user_id == user['id']).count()
character_count(tpl, who) ==
    Cardinality({i \in DOMAIN chars[tpl] : chars[tpl][i].user_id = who.id})

\* Character(user_id=..., **fields): columns not given take their default
NewCharacter(tpl, who, fields) ==
    [user_id |-> who.id,
     created_at |-> clock,   \* server_default=func.now()
     f |-> [c \in Columns(tpl) |-> IF c \in DOMAIN fields THEN fields[c] ELSE ColumnDefault(c)]]

\* HTRCharacter(**data) is handed the relationship keys create_character did
\* not pop; a list of dicts is not a list of mapped rows
ConstructorRaises(tpl, c) ==
    tpl = "htr" /\ \E k \in HTRRelationshipKeys \cap DOMAIN c : c[k].items # <<>>

\* create_character up to the last db.add
CreateBegin(p, who, tpl, raw) ==
    /\ req[p] = Idle
    /\ clock < TxnLimit
    /\ idseq[tpl] <= IdLimit
    /\ LET data == sanitize_character_data(raw, tpl)
           colls == ParseCreateColls(tpl, data.c)
           errors == IF tpl = "vtm" THEN ValidationErrors(data.f) ELSE {}
           fields == IF tpl = "vtm" THEN model_dump(data.f) ELSE data.f
           id == idseq[tpl]
           adds == UNION {Batch(tpl, id, k, clock, colls[k]) : k \in DOMAIN colls}
       IN  IF character_count(tpl, who) >= CHARACTER_LIMIT_PER_USER
           THEN /\ resp' = [resp EXCEPT ![p] = Response("create", "limit", tpl, 0, who, NoData, {})]
                /\ UNCHANGED <<chars, rows, idseq, clock, req, focus, prefs, files, audit, outage>>
           ELSE IF errors # {}
           THEN /\ resp' = [resp EXCEPT ![p] = Response("create", "validation", tpl, 0, who, [f |-> raw.f, c |-> <<>>], errors)]
                /\ UNCHANGED <<chars, rows, idseq, clock, req, focus, prefs, files, audit, outage>>
           ELSE IF ConstructorRaises(tpl, data.c)
           THEN /\ resp' = [resp EXCEPT ![p] = Response("create", "error", tpl, 0, who, NoData, {})]
                /\ UNCHANGED <<chars, rows, idseq, clock, req, focus, prefs, files, audit, outage>>
           ELSE IF \E k \in DOMAIN colls : InsertRaises(k, colls[k])
           THEN \* raised after db.flush(): the id is used up
                /\ resp' = [resp EXCEPT ![p] = Response("create", "error", tpl, 0, who, NoData, {})]
                /\ idseq' = [idseq EXCEPT ![tpl] = id + 1]
                /\ clock' = clock + 1
                /\ UNCHANGED <<chars, rows, req, focus, prefs, files, audit, outage>>
           ELSE /\ req' = [req EXCEPT ![p] =
                            [pc |-> "commit", op |-> "create", tpl |-> tpl, id |-> id,
                             who |-> who, raw |-> raw, stamp |-> clock,
                             root |-> NewCharacter(tpl, who, fields),
                             deleted |-> {}, adds |-> adds]]
                /\ resp' = [resp EXCEPT ![p] = NoResponse]
                /\ idseq' = [idseq EXCEPT ![tpl] = id + 1]
                /\ clock' = clock + 1
                /\ UNCHANGED <<chars, rows, focus, prefs, files, audit, outage>>

\* db.commit() of create_character
CreateCommit(p) ==
    /\ req[p] # Idle /\ req[p].op = "create" /\ req[p].pc = "commit"
    /\ LET r == req[p]
       IN  /\ chars' = [chars EXCEPT ![r.tpl] =
                          [i \in DOMAIN @ \cup {r.id} |-> IF i = r.id THEN r.root ELSE @[i]]]
           /\ rows' = rows \cup r.adds
           /\ resp' = [resp EXCEPT ![p] =
                         [Response("create", "ok", r.tpl, r.id, r.who, r.raw, {})
                             EXCEPT !.stamp = r.stamp]]
    /\ req' = [req EXCEPT ![p] = Idle]
    /\ UNCHANGED <<idseq, clock, focus, prefs, files, audit, outage>>


(***************************************************************************)
(* Read, delete, portrait upload, storyteller routes                       *)
(***************************************************************************)
\* the relationships of a sheet as one read returns them
Views(tpl, id) ==
    LET keys == Range(UpdateColls(tpl))
        lists == UNION {ReadResults(rows, tpl, id, k) : k \in keys}
    IN  {[k \in keys |-> Value(c[k])] :
            c \in {d \in [keys -> lists] : \A k \in keys : d[k] \in ReadResults(rows, tpl, id, k)}}

\* get_character_api of routes/vtm.py and routes/htr.py: every column and
\* every relationship of the sheet
Read(p, who, tpl, id) ==
    /\ req[p] = Idle
    /\ IF ~OwnedBy(tpl, id, who)
       THEN resp' = [resp EXCEPT ![p] = CharacterNotFound("read", tpl, id, who)]
       ELSE \E c \in Views(tpl, id) :
               resp' = [resp EXCEPT ![p] =
                          Response("read", "ok", tpl, id, who, [f |-> chars[tpl][id].f, c |-> c], {})]
    /\ UNCHANGED <<chars, rows, idseq, clock, req, focus, prefs, files, audit, outage>>

\* routes/storyteller.py: require_storyteller answers 403
AccessDenied(op, tpl, id, who) == Response(op, "forbidden", tpl, id, who, NoData, {})

\* get_vtm_character_api builds joinedload(VTMCharacter.equipment), an
\* attribute VTMCharacter does not have; get_htr_character_api reads adv.name
\* and flaw.name, attributes HTRAdvantage and HTRFlaw do not have
StorytellerReadRaises(tpl, id) ==
    \/ tpl = "vtm"
    \/ /\ id \in DOMAIN chars[tpl]
       /\ \E k \in {"advantages", "flaws"} : Batches(rows, tpl, id, k) # {}

\* get_vtm_character_api / get_htr_character_api of routes/storyteller.py
StorytellerRead(p, who, tpl, id) ==
    /\ req[p] = Idle
    /\ IF ~is_storyteller(who)
       THEN resp' = [resp EXCEPT ![p] = AccessDenied("st_read", tpl, id, who)]
       ELSE IF StorytellerReadRaises(tpl, id)
       THEN resp' = [resp EXCEPT ![p] = Response("st_read", "error", tpl, id, who, NoData, {})]
       ELSE IF id \notin DOMAIN chars[tpl]
       THEN resp' = [resp EXCEPT ![p] = Response("st_read", "http404", tpl, id, who, NoData, {})]
       ELSE \E c \in Views(tpl, id) :
               resp' = [resp EXCEPT ![p] =
                          Response("st_read", "ok", tpl, id, who, [f |-> chars[tpl][id].f, c |-> c], {})]
    /\ UNCHANGED <<chars, rows, idseq, clock, req, focus, prefs, files, audit, outage>>

\* utils.py: delete_portrait removes the file the url names when there is
\* one; an empty url or one that names no file changes nothing
delete_portrait(dir, portrait_url) ==
    IF portrait_url \in DOMAIN dir THEN [dir EXCEPT ![portrait_url] = FALSE] ELSE dir

\* `for portrait_url in portraits: if portrait_url: delete_portrait(portrait_url)`
DeletePortraits(dir, f) ==
    delete_portrait(delete_portrait(dir, f["portrait_face"]), f["portrait_body"])

\* utils.py: process_and_save_portrait saves the image under a fresh uuid;
\* its url is the next number
process_and_save_portrait(dir) == Append(dir, TRUE)

\* the boxes of upload_portrait that the model tracks
valid_boxes == {"face", "body"}

PortraitField(box_type) == IF box_type = "face" THEN "portrait_face" ELSE "portrait_body"

\* delete_character (routes/vtm.py, routes/htr.py; route = "owner") and
\* delete_vtm_character / delete_htr_character (routes/storyteller.py) up to
\* db.delete(character): the portrait files are removed first, and
\* db.delete loads the rows of every relationship for the cascade
DeleteBegin(p, who, tpl, id, route) ==
    /\ req[p] = Idle
    /\ clock < TxnLimit
    /\ LET op == IF route = "owner" THEN "delete" ELSE "st_delete"
       IN  IF route # "owner" /\ ~is_storyteller(who)
           THEN /\ resp' = [resp EXCEPT ![p] = AccessDenied(op, tpl, id, who)]
                /\ UNCHANGED <<chars, rows, idseq, clock, req, focus, prefs, files, audit, outage>>
           ELSE IF (route = "owner" /\ ~OwnedBy(tpl, id, who)) \/ id \notin DOMAIN chars[tpl]
           THEN /\ resp' = [resp EXCEPT ![p] = CharacterNotFound(op, tpl, id, who)]
                /\ UNCHANGED <<chars, rows, idseq, clock, req, focus, prefs, files, audit, outage>>
           ELSE /\ files' = DeletePortraits(files, chars[tpl][id].f)
                /\ req' = [req EXCEPT ![p] =
                            [pc |-> "commit", op |-> op, tpl |-> tpl, id |-> id,
                             who |-> who, raw |-> NoData, stamp |-> clock,
                             deleted |-> {}, adds |-> {},
                             snap |-> {b \in rows : b.tpl = tpl /\ b.cid = id}]]
                /\ resp' = [resp EXCEPT ![p] = NoResponse]
                /\ clock' = clock + 1
                /\ UNCHANGED <<chars, rows, idseq, focus, prefs, audit, outage>>

\* the committed child rows that refer to the sheet of worker p's request
Referring(p) == {b \in rows : b.tpl = req[p].tpl /\ b.cid = req[p].id}

\* mutant: the child rows of the deleted sheet stay
DeleteCommit_NoCascade(p) ==
    /\ req[p] # Idle /\ req[p].op \in {"delete", "st_delete"} /\ req[p].pc = "commit"
    /\ ~LockedByOther(p, req[p].snap)
    /\ LET r == req[p]
       IN  /\ chars' = [chars EXCEPT ![r.tpl] = [i \in (DOMAIN @) \ {r.id} |-> @[i]]]
           /\ rows' = rows
           /\ resp' = [resp EXCEPT ![p] =
                         [Response(r.op, "ok", r.tpl, r.id, r.who, NoData, {})
                             EXCEPT !.stamp = r.stamp]]
           /\ req' = [req EXCEPT ![p] = Idle]
           /\ UNCHANGED <<idseq, clock, focus, prefs, files, audit, outage>>

\* db.commit() after db.delete(character): cascade="all, delete-orphan" emits
\* a DELETE for each child row that db.delete loaded, which waits while
\* another transaction holds the row, and then for the root row, which the
\* foreign keys refuse while a child row still refers to it
DeleteCommit(p) ==
    /\ req[p] # Idle /\ req[p].op \in {"delete", "st_delete"} /\ req[p].pc = "commit"
    /\ ~LockedByOther(p, req[p].snap)
    /\ LET r == req[p]
       IN  IF Referring(p) \ r.snap # {}
           THEN Rollback(p)
           ELSE /\ chars' = [chars EXCEPT ![r.tpl] = [i \in (DOMAIN @) \ {r.id} |-> @[i]]]
                /\ rows' = rows \ Referring(p)
                /\ resp' = [resp EXCEPT ![p] =
                              [Response(r.op, "ok", r.tpl, r.id, r.who, NoData, {})
                                  EXCEPT !.stamp = r.stamp]]
                /\ req' = [req EXCEPT ![p] = Idle]
                /\ UNCHANGED <<idseq, clock, focus, prefs, files, audit, outage>>

\* upload_portrait of routes/vtm.py and routes/htr.py; outcome is what the
\* environment does to the request: "bad_type" (validate_image_type or the
\* extension or size check raises), "bad_image" (process_and_save_portrait
\* raises), "fault" (db.commit() raises) or "ok"
UploadPortrait(p, who, tpl, id, box_type, outcome) ==
    /\ req[p] = Idle
    /\ (OwnedBy(tpl, id, who) /\ box_type \in valid_boxes /\ outcome \in {"ok", "fault"})
          => Len(files) < MaxUrls
    /\ IF ~OwnedBy(tpl, id, who)
       THEN /\ resp' = [resp EXCEPT ![p] = CharacterNotFound("upload", tpl, id, who)]
            /\ UNCHANGED <<chars, files>>
       ELSE IF box_type \notin valid_boxes
       THEN /\ resp' = [resp EXCEPT ![p] = Response("upload", "badrequest", tpl, id, who, NoData, {})]
            /\ UNCHANGED <<chars, files>>
       ELSE IF outcome = "bad_type"
       THEN /\ resp' = [resp EXCEPT ![p] = Response("upload", "badimage", tpl, id, who, NoData, {})]
            /\ UNCHANGED <<chars, files>>
       ELSE LET field == PortraitField(box_type)
                old_portrait == chars[tpl][id].f[field]
                cleared == delete_portrait(files, old_portrait)
                portrait_url == Len(files) + 1
            IN  IF outcome = "bad_image"
                THEN /\ resp' = [resp EXCEPT ![p] = Response("upload", "badimage", tpl, id, who, NoData, {})]
                     /\ files' = cleared
                     /\ UNCHANGED chars
                ELSE IF outcome = "fault"
                THEN /\ resp' = [resp EXCEPT ![p] = Response("upload", "error", tpl, id, who, NoData, {})]
                     /\ files' = process_and_save_portrait(cleared)
                     /\ UNCHANGED chars
                ELSE /\ resp' = [resp EXCEPT ![p] =
                                   Response("upload", "ok", tpl, id, who,
                                            [f |-> [x \in {field} |-> portrait_url], c |-> <<>>], {})]
                     /\ files' = process_and_save_portrait(cleared)
                     /\ chars' = [chars EXCEPT ![tpl][id].f[field] = portrait_url]
    /\ UNCHANGED <<rows, idseq, clock, req, focus, prefs, audit, outage>>

\* the insert into audit_logs starts or stops failing
AuditOutage ==
    /\ outage' = ~outage
    /\ UNCHANGED <<chars, rows, idseq, clock, req, resp, focus, prefs, files, audit>>


(***************************************************************************)
(* Inputs                                                                  *)
(***************************************************************************)
Player == [id |-> 1, role |-> "player"]
Storyteller == [id |-> 2, role |-> "storyteller"]
Principals == {Player, Storyteller}

Item(name, edge_id, n, ok) == [name |-> name, edge_id |-> edge_id, n |-> n, ok |-> ok]

\* the items a client submits under a collection key
Items(coll) ==
    CASE coll = "xp_log" ->
            {Item("add", "", 5, TRUE), Item("spend", "", 5, TRUE), Item("add", "", 5, FALSE)}
      [] coll = "perks" ->
            {Item(nm, e, 0, TRUE) : nm \in {"", "A"}, e \in {"", "E"}}
      [] coll \in {"touchstones", "equipment"} ->
            {Item(nm, "", 1, TRUE) : nm \in {"", "A", "B", ScriptTag}}
      [] OTHER ->
            {Item(nm, "", 1, TRUE) : nm \in {"", "A", "B"}}

SeqsUpTo(S, n) == UNION {[1..m -> S] : m \in 0..n}

Lists(coll) ==
    {Value(l) : l \in SeqsUpTo(Items(coll), MaxLen)}
        \cup (IF coll = "xp_log" THEN {BadJson} ELSE {})

\* functions from a subset of the keys K to values of V(k)
PartialFns(K, V(_)) ==
    UNION {{g \in [D -> UNION {V(k) : k \in D}] : \A k \in D : g[k] \in V(k)} : D \in SUBSET K}

\* a behaviour edits one sheet section of one template, and with it the
\* section that update_character handles next
Successor(order, k) == order[(k % Len(order)) + 1]

FocusSet ==
    UNION {{[tpl |-> t, main |-> UpdateColls(t)[k], other |-> Successor(UpdateColls(t), k)] :
              k \in DOMAIN UpdateColls(t)} : t \in Templates}

\* what the client submits under the second section
OtherLists(coll) ==
    {Value(<<CHOOSE it \in Items(coll) : Present(coll, it) /\ it.name \notin {"", "spend"} /\ it.ok>>)}

OneOrNone(k, V) == {<<>>} \cup {[x \in {k} |-> v] : v \in V}

Merge(g, h) == [x \in DOMAIN g \cup DOMAIN h |-> IF x \in DOMAIN g THEN g[x] ELSE h[x]]

\* payloads of the collection scenarios: a list for the main section or none,
\* one for the other section or none, and one scalar field or none
CollPayloads ==
    {[f |-> f, c |-> Merge(c1, c2)] :
        f \in OneOrNone("strength", {3, 9}),
        c1 \in OneOrNone(focus.main, Lists(focus.main)),
        c2 \in OneOrNone(focus.other, OtherLists(focus.other))}

\* what the client submits when it creates the sheet: full lists of items
\* that are kept
SetupLists(coll) ==
    {Value(l) : l \in [1..MaxLen -> {it \in Items(coll) : Present(coll, it) /\ it.name # "" /\ it.ok}]}

SetupPayloads ==
    {[f |-> <<>>, c |-> Merge(c1, c2)] :
        c1 \in OneOrNone(focus.main, SetupLists(focus.main)),
        c2 \in OneOrNone(focus.other, OtherLists(focus.other))}

(***************************************************************************)
(* Collections: one worker, sequential requests                            *)
(***************************************************************************)
InitColl == Init /\ focus \in FocusSet

NextColl ==
    \/ \E raw \in SetupPayloads : CreateBegin(1, Player, focus.tpl, raw)
    \/ CreateCommit(1)
    \/ \E who \in Principals, id \in 1..MaxId : \E raw \in CollPayloads :
          UpdateBegin(1, who, focus.tpl, id, raw)
    \/ UpdateSync(1)
    \/ UpdateCommit(1)
    \/ Fault(1)

SpecColl == InitColl /\ [][NextColl]_vars


(***************************************************************************)
(* Claims: child collections                                               *)
(***************************************************************************)
\* the supplied items that pass the presence check, in submitted order
Kept(coll, l) == SelectSeq(sanitize_list(l), LAMBDA it : Present(coll, it))

\* a successful update of worker p has just been answered
UpdatedOk(p) == resp[p].op = "update" /\ resp[p].status = "ok"

\* the collection keys of the template that the answered request supplied
SuppliedKeys(p) == DOMAIN resp[p].c \cap Range(UpdateColls(resp[p].tpl))

IsPermutation(s, t) ==
    /\ Len(s) = Len(t)
    /\ \E g \in [DOMAIN s -> DOMAIN t] :
          /\ \A i, j \in DOMAIN s : i # j => g[i] # g[j]
          /\ \A i \in DOMAIN s : s[i] = t[g[i]]

CommitsUpdate(p) ==
    /\ req[p] # Idle /\ req[p].op = "update" /\ req[p].pc = "commit"
    /\ resp'[p].op = "update" /\ resp'[p].status = "ok"

\* C2: an update that omits a collection key leaves every row of that
\* collection of the aggregate as it was, whatever else the update carries.
C2_OmittedKeyUntouched ==
    [][CommitsUpdate(1) =>
          \A k \in Range(UpdateColls(req[1].tpl)) \ DOMAIN req[1].raw.c :
              Batches(rows', req[1].tpl, req[1].id, k) = Batches(rows, req[1].tpl, req[1].id, k)]_vars

\* an update carrying a scalar field and the main section was committed while
\* the other section, which it omitted, held rows
C2_Witness ==
    /\ UpdatedOk(1)
    /\ resp[1].f # <<>>
    /\ focus.main \in SuppliedKeys(1)
    /\ focus.other \notin DOMAIN resp[1].c
    /\ Batches(rows, resp[1].tpl, resp[1].id, focus.other) # {}

\* the display_order values stored for a collection
Positions(tpl, cid, coll) ==
    {r[1].rs[r[2]].display_order : r \in StoredRows(rows, tpl, cid, coll)}

WrittenOk(p) == resp[p].op \in {"create", "update"} /\ resp[p].status = "ok"

FailsUpdate(p) ==
    /\ resp'[p] # resp[p]
    /\ resp'[p].op = "update" /\ resp'[p].status \in {"validation", "error"}

\* C4: when a step of an update fails, the committed scalar fields and child
\* rows are those from before the update; rows change only in the step that
\* commits, so no half-replaced collection is ever committed.
C4_FailureChangesNothing ==
    [][/\ FailsUpdate(1) => chars' = chars /\ rows' = rows
       /\ (req[1] # Idle /\ req[1].op = "update" /\ req'[1] # Idle) =>
             chars' = chars /\ rows' = rows]_vars

\* an update was rolled back after it had deleted the rows of a collection
\* that is still stored
C4_Witness ==
    /\ resp[1].op = "update" /\ resp[1].status = "error" /\ resp[1].dirty
    /\ Batches(rows, resp[1].tpl, resp[1].id, focus.main) # {}
    /\ Batches(rows, resp[1].tpl, resp[1].id, focus.other) # {}


(***************************************************************************)
(* Scalar sections: one worker, sequential requests                        *)
(***************************************************************************)
\* the sections of the sheet form whose fields a client edits together
Sections == {"health", "willpower", "experience", "traits"}

SectionFields(s) ==
    CASE s = "health" -> {"health_max", "health_superficial", "health_aggravated"}
      [] s = "willpower" -> {"willpower_max", "willpower_superficial", "willpower_aggravated"}
      [] s = "experience" -> ExpFields
      [] OTHER -> {"strength", "athletics", "generation", "blood_potency"}

\* the numbers a client submits for a field
SectionValues(k) ==
    CASE k \in {"health_max", "willpower_max"} -> {3, 6}
      [] k \in {"health_superficial", "willpower_superficial"} -> {2, 4}
      [] k \in {"health_aggravated", "willpower_aggravated"} -> {3}
      [] k = "exp_total" -> {8}
      [] k = "exp_spent" -> {0, 5}
      [] k = "exp_available" -> {3, 8}
      [] k = "strength" -> {3, 9}
      [] k = "athletics" -> {6}
      [] k = "generation" -> {17}
      [] OTHER -> {11}

Spend5 == Item("spend", "", 5, TRUE)

\* the ledgers submitted with the experience section
SectionLedgers(s) ==
    IF s = "experience" THEN {Value(<<Spend5>>), Value(<<Spend5, Spend5>>)} ELSE {}

SheetFocusSet == {[tpl |-> t, main |-> s, other |-> "xp_log"] : t \in Templates, s \in Sections}

SheetPayloads ==
    {[f |-> f, c |-> c] :
        f \in PartialFns(SectionFields(focus.main), SectionValues),
        c \in OneOrNone("xp_log", SectionLedgers(focus.main))}

InitSheet == Init /\ focus \in SheetFocusSet

NextSheet ==
    \/ \E who \in Principals : \E raw \in SheetPayloads : CreateBegin(1, who, focus.tpl, raw)
    \/ CreateCommit(1)
    \/ \E who \in Principals, id \in 1..MaxId : \E raw \in SheetPayloads :
          UpdateBegin(1, who, focus.tpl, id, raw)
    \/ UpdateSync(1)
    \/ UpdateCommit(1)
    \/ Fault(1)

SpecSheet == InitSheet /\ [][NextSheet]_vars


(***************************************************************************)
(* Claims: trackers, ranges, experience                                    *)
(***************************************************************************)
\* utils.py: validate_damage_total and validate_xp_spend
validate_damage_total(max_value, superficial, aggravated) ==
    superficial + aggravated <= max_value

validate_xp_spend(available, amount) == amount <= available /\ amount > 0

\* the (max, superficial, aggravated) columns of the two damage trackers
DamageTriples ==
    {<<"health_max", "health_superficial", "health_aggravated">>,
     <<"willpower_max", "willpower_superficial", "willpower_aggravated">>}

\* C5 (as stated): in every committed character of either template,
\* superficial + aggravated damage is at most the maximum, for health and
\* for willpower, whatever subset of the fields the writes carried.
C5_Original ==
    \A t \in Templates : \A cid \in DOMAIN chars[t] :
        \A tr \in DamageTriples :
            validate_damage_total(chars[t][cid].f[tr[1]], chars[t][cid].f[tr[2]],
                                  chars[t][cid].f[tr[3]])

\* C6 (as stated): a create whose payload carries a damage triple with
\* superficial + aggravated greater than the maximum is not answered with
\* success.
C6_Original ==
    (resp[1].op = "create" /\ resp[1].status = "ok") =>
        \A tr \in DamageTriples :
            Range(tr) \subseteq DOMAIN resp[1].f =>
                validate_damage_total(resp[1].f[tr[1]], resp[1].f[tr[2]], resp[1].f[tr[3]])

\* the fields whose range the sheet rules fix
RangedFields == {"strength", "athletics", "blood_potency", "hunger",
                 "humanity_current", "generation"}

\* C7 (as stated): in every committed character the ranged fields it has are
\* in range, and no create or update whose payload puts one of them out of
\* range is answered with success, whoever the principal is.
C7_Original ==
    /\ \A t \in Templates : \A cid \in DOMAIN chars[t] :
          \A k \in RangedFields \cap Columns(t) : FieldInRange(k, chars[t][cid].f[k])
    /\ WrittenOk(1) =>
          \A k \in RangedFields \cap Columns(resp[1].tpl) \cap DOMAIN resp[1].f :
              FieldInRange(k, resp[1].f[k])

\* C8 (as stated): in every committed character the stored exp_available is
\* the stored exp_total minus the stored exp_spent.
C8_Original ==
    \A t \in Templates : \A cid \in DOMAIN chars[t] :
        chars[t][cid].f["exp_available"]
            = chars[t][cid].f["exp_total"] - chars[t][cid].f["exp_spent"]

\* the sum of the amounts of the spend entries of a ledger
RECURSIVE SpendTotal(_)
SpendTotal(l) ==
    IF l = <<>> THEN 0
    ELSE (IF Head(l).name = "spend" THEN Head(l).n ELSE 0) + SpendTotal(Tail(l))

RECURSIVE BatchesSpent(_)
BatchesSpent(B) ==
    IF B = {} THEN 0
    ELSE LET b == CHOOSE x \in B : TRUE
         IN  SpendTotal([i \in DOMAIN b.rs |-> b.rs[i].it]) + BatchesSpent(B \ {b})

\* the sum of the spend entries stored for a character
LedgerSpent(db, tpl, cid) == BatchesSpent(Batches(db, tpl, cid, "xp_log"))

\* C9 (as stated): an update whose ledger spends more than the stored ledger
\* does is committed only if the added spend is at most the exp_available
\* stored at that time.
C9_Original ==
    [][(CommitsUpdate(1) /\ "xp_log" \in DOMAIN req[1].colls) =>
          LET new == SpendTotal(req[1].colls["xp_log"])
                        - LedgerSpent(rows, req[1].tpl, req[1].id)
          IN  new > 0 =>
                  validate_xp_spend(chars[req[1].tpl][req[1].id].f["exp_available"], new)]_vars


(***************************************************************************)
(* Experience: two workers spending concurrently                           *)
(***************************************************************************)
RaceFocusSet == {[tpl |-> t, main |-> "experience", other |-> "xp_log"] : t \in Templates}

\* the sheet is created with 8 points earned and none spent, with or without
\* the ledger entry that records the award
RaceSetups ==
    {[f |-> [k \in ExpFields |-> IF k = "exp_spent" THEN 0 ELSE 8], c |-> c] :
        c \in OneOrNone("xp_log", {Value(<<Item("add", "", 8, TRUE)>>)})}

\* a spend of 5, with or without the balance fields the form computes
SpendPayloads ==
    {[f |-> f, c |-> [k \in {"xp_log"} |-> Value(<<Spend5>>)]] :
        f \in {<<>>, [k \in {"exp_spent", "exp_available"} |-> IF k = "exp_spent" THEN 5 ELSE 3]}}

InitRace == Init /\ focus \in RaceFocusSet

NextRace ==
    \/ \E raw \in RaceSetups : CreateBegin(1, Player, focus.tpl, raw)
    \/ CreateCommit(1)
    \/ \E p \in Procs, id \in 1..MaxId : \E raw \in SpendPayloads :
          UpdateBegin(p, Player, focus.tpl, id, raw)
    \/ \E p \in Procs : UpdateSync(p)
    \/ \E p \in Procs : UpdateResume(p)
    \/ \E p \in Procs : UpdateCommit(p)
    \/ \E p \in Procs : Fault(p)

SpecRace == InitRace /\ [][NextRace]_vars

\* the ledger holds spend rows inserted by the transaction worker p committed
SpendStored(p) ==
    \E b \in Batches(rows, resp[p].tpl, resp[p].id, "xp_log") :
        b.stamp = resp[p].stamp /\ SpendTotal([i \in DOMAIN b.rs |-> b.rs[i].it]) > 0

\* C10 (as stated): when two updates of one character that overlapped have
\* both committed their spend entries (the rows of both are stored, which a
\* later update would have replaced), the spends stored are at most the
\* exp_total earned.
C10_Original ==
    \A p \in Procs : \A q \in Procs \ {p} :
        (/\ UpdatedOk(p) /\ UpdatedOk(q)
         /\ resp[p].tpl = resp[q].tpl /\ resp[p].id = resp[q].id
         /\ SpendStored(p) /\ SpendStored(q)) =>
            LedgerSpent(rows, resp[p].tpl, resp[p].id)
                <= chars[resp[p].tpl][resp[p].id].f["exp_total"]


(***************************************************************************)
(* Slots: creates that fill the tables                                     *)
(***************************************************************************)
SlotsFocus == [tpl |-> "vtm", main |-> "slots", other |-> "xp_log"]

\* a new sheet, blank or with one touchstone
SlotPayloads ==
    {[f |-> <<>>, c |-> c] :
        c \in OneOrNone("touchstones", {Value(<<Item("A", "", 1, TRUE)>>)})}

InitSlots == Init /\ focus = SlotsFocus

NextSlots ==
    \/ \E who \in Principals, tpl \in Templates : \E raw \in SlotPayloads :
          CreateBegin(1, who, tpl, raw)
    \/ CreateCommit(1)
    \/ Fault(1)

SpecSlots == InitSlots /\ [][NextSlots]_vars

\* the committed sheets of one template, and of both, that a principal owns
OwnedOf(tpl, who) == {i \in DOMAIN chars[tpl] : chars[tpl][i].user_id = who.id}
OwnedTotal(who) == Cardinality(OwnedOf("vtm", who)) + Cardinality(OwnedOf("htr", who))

\* worker p's create passes the limit check in this step
BeginsCreate(p) == req[p] = Idle /\ req'[p] # Idle /\ req'[p].op = "create"

\* worker p's create is answered with the limit error in this step
LimitAnswered(p) ==
    req[p] = Idle /\ resp'[p] # resp[p] /\ resp'[p].op = "create" /\ resp'[p].status = "limit"

\* C11 (as stated): no create of a non-privileged principal who owns 3 or
\* more aggregates passes the limit check.
C11_Original ==
    [][(BeginsCreate(1) /\ ~is_storyteller(req'[1].who)) =>
          OwnedTotal(req'[1].who) < CHARACTER_LIMIT_PER_USER]_vars

\* C11 (amended): the cap counts the sheets of the template being created. A
\* create passes the limit check only if the principal owns fewer than 3
\* sheets of that template; it is answered with the limit error only if the
\* principal owns 3 or more of that template, and then no root row, child row
\* or id is used.
C11_PerTemplate ==
    [][/\ BeginsCreate(1) =>
             Cardinality(OwnedOf(req'[1].tpl, req'[1].who)) < CHARACTER_LIMIT_PER_USER
       /\ LimitAnswered(1) =>
             /\ Cardinality(OwnedOf(resp'[1].tpl, resp'[1].who)) >= CHARACTER_LIMIT_PER_USER
             /\ chars' = chars /\ rows' = rows /\ idseq' = idseq /\ req' = req]_vars

\* the player holds 3 sheets of one template and fewer of the other, and a
\* further create of the first template was refused
C11_Witness ==
    /\ resp[1].op = "create" /\ resp[1].status = "limit"
    /\ ~is_storyteller(resp[1].who)
    /\ Cardinality(OwnedOf(resp[1].tpl, resp[1].who)) = CHARACTER_LIMIT_PER_USER
    /\ OwnedTotal(resp[1].who) = CHARACTER_LIMIT_PER_USER
    /\ rows # {}

\* C12 (as stated): a create by a privileged principal is never answered
\* with the limit error.
C12_Original ==
    ~(resp[1].op = "create" /\ resp[1].status = "limit" /\ is_storyteller(resp[1].who))


(***************************************************************************)
(* Lifecycle: one worker; create, read, update, upload, delete             *)
(***************************************************************************)
Rival == [id |-> 3, role |-> "player"]
Callers == {Player, Rival, Storyteller}

\* a behaviour follows the rows of the sheets from create to delete, or the
\* portrait slots of one sheet
LifeFocusSet ==
    {[tpl |-> t, main |-> m, other |-> "xp_log"] : t \in Templates, m \in {"life", "portraits"}}

\* the ids a request names: those the table hands out
LifeIds == 1..IdLimit

LifeItem(nm) == Value(<<Item(nm, "", 1, TRUE)>>)

\* a new sheet: blank, with a touchstone, or (HTR) with an advantage
LifeCreatePayloads ==
    {[f |-> <<>>, c |-> c] :
        c \in OneOrNone("touchstones", {LifeItem("A")})
                 \cup (IF focus.tpl = "htr" /\ focus.main = "life"
                       THEN OneOrNone("advantages", {LifeItem("A")}) ELSE {})}

\* an edit: a portrait url written as a scalar field, or one scalar field or
\* a new list of touchstones
LifeUpdatePayloads ==
    IF focus.main = "portraits"
    THEN {[f |-> f, c |-> <<>>] : f \in OneOrNone("portrait_face", 0..MaxUrls)}
    ELSE {[f |-> f, c |-> c] :
             f \in OneOrNone("strength", {2}),
             c \in OneOrNone("touchstones", {LifeItem("B")})}

\* the box an upload names and what the environment does to it
UploadInputs ==
    {<<b, o>> : b \in valid_boxes, o \in {"ok", "bad_type", "bad_image", "fault"}}
        \cup {<<"banner", "ok">>}

InitLife == Init /\ focus \in LifeFocusSet

NextLife ==
    \/ \E raw \in LifeCreatePayloads : CreateBegin(1, Player, focus.tpl, raw)
    \/ CreateCommit(1)
    \/ \E who \in Callers, id \in LifeIds : \E raw \in LifeUpdatePayloads :
          UpdateBegin(1, who, focus.tpl, id, raw)
    \/ UpdateSync(1)
    \/ UpdateCommit(1)
    \/ Fault(1)
    \/ \E who \in Callers, id \in LifeIds : Read(1, who, focus.tpl, id)
    \/ \E who \in Callers, id \in LifeIds :
          focus.main = "life" /\ StorytellerRead(1, who, focus.tpl, id)
    \/ \E who \in Callers, id \in LifeIds, route \in {"owner", "storyteller"} :
          DeleteBegin(1, who, focus.tpl, id, route)
    \/ DeleteCommit(1)
    \/ \E who \in Callers, id \in LifeIds, up \in UploadInputs :
          focus.main = "portraits" /\ UploadPortrait(1, who, focus.tpl, id, up[1], up[2])
    \/ focus.main = "life" /\ AuditOutage

SpecLife == InitLife /\ [][NextLife]_vars

\* worker p's request is answered in the step that receives it
Answered(p) == req[p] = Idle /\ req'[p] = Idle /\ resp'[p] # resp[p]

\* worker p's request is taken up in this step, its transaction left open
Accepted(p) == req[p] = Idle /\ req'[p] # Idle

\* the request just answered names a sheet its principal does not own, one
\* that does not exist or one of another owner
NotOwnRequest(p) ==
    /\ Answered(p)
    /\ ~is_storyteller(resp'[p].who)
    /\ resp'[p].id \notin OwnedOf(resp'[p].tpl, resp'[p].who)

\* C13: a read, update, delete or portrait upload by a non-privileged
\* principal that names a sheet the principal does not own is answered with
\* the NotFound outcome made of the request alone (operation, template, id,
\* principal): the answer for an id that does not exist and the answer for an
\* id of another owner are the same.
C13_SameNotFound ==
    [][(NotOwnRequest(1) /\ resp'[1].op \in {"read", "update", "delete", "upload"}) =>
          resp'[1] = Response(resp'[1].op, "notfound", resp'[1].tpl, resp'[1].id,
                              resp'[1].who, NoData, {})]_vars

\* the rival asked to read a sheet that exists and belongs to the player, and
\* was answered NotFound
C13_Witness ==
    /\ resp[1].op = "read" /\ resp[1].status = "notfound" /\ resp[1].who = Rival
    /\ resp[1].id \in OwnedOf(resp[1].tpl, Player)

\* C14: an update, delete or portrait upload by a non-privileged principal
\* who does not own the sheet is answered NotFound and changes no root row,
\* child row or portrait file; no such request opens a transaction; the
\* child rows a commit writes belong to a sheet of the committing principal.
C14_NonOwnerChangesNothing ==
    [][/\ (NotOwnRequest(1) /\ resp'[1].op \in {"update", "delete", "upload"}) =>
             /\ resp'[1].status = "notfound"
             /\ chars' = chars /\ rows' = rows /\ files' = files
       /\ (Accepted(1) /\ req'[1].op \in {"update", "delete"}) =>
             /\ req'[1].id \in OwnedOf(req'[1].tpl, req'[1].who)
             /\ chars' = chars /\ rows' = rows
       /\ \A b \in rows' \ rows :
             /\ req[1] # Idle
             /\ b.tpl = req[1].tpl /\ b.cid = req[1].id
             /\ b.cid \in DOMAIN chars'[b.tpl]
             /\ chars'[b.tpl][b.cid].user_id = req[1].who.id]_vars

\* the rival's delete of the player's sheet, which has child rows and a
\* portrait file, was answered NotFound
C14_Witness ==
    /\ resp[1].op = "delete" /\ resp[1].status = "notfound" /\ resp[1].who = Rival
    /\ resp[1].id \in OwnedOf(resp[1].tpl, Player)
    /\ \E b \in rows : b.tpl = resp[1].tpl /\ b.cid = resp[1].id
    /\ LET u == chars[resp[1].tpl][resp[1].id].f["portrait_face"]
       IN  u \in DOMAIN files /\ files[u]

\* C15 (as stated): a privileged principal who is not the owner reads every
\* existing sheet of either template and gets its scalar fields and child
\* collections, and the delete such a principal commits removes the sheet.
C15_Original ==
    [][/\ (Answered(1) /\ resp'[1].op = "st_read" /\ is_storyteller(resp'[1].who)
              /\ resp'[1].id \in DOMAIN chars[resp'[1].tpl]
              /\ resp'[1].id \notin OwnedOf(resp'[1].tpl, resp'[1].who)) =>
             /\ resp'[1].status = "ok"
             /\ resp'[1].f = chars[resp'[1].tpl][resp'[1].id].f
             /\ resp'[1].c \in Views(resp'[1].tpl, resp'[1].id)
       /\ (resp'[1] # resp[1] /\ resp'[1].op = "st_delete" /\ resp'[1].status = "ok") =>
             resp'[1].id \notin DOMAIN chars'[resp'[1].tpl]]_vars

\* C16: every stored child row refers to a stored sheet, and after a
\* successful delete no child row refers to the deleted id.
C16_NoOrphanRows ==
    /\ \A b \in rows : b.cid \in DOMAIN chars[b.tpl]
    /\ \A p \in Procs :
          (resp[p].op \in {"delete", "st_delete"} /\ resp[p].status = "ok") =>
              /\ resp[p].id \notin DOMAIN chars[resp[p].tpl]
              /\ ~\E b \in rows : b.tpl = resp[p].tpl /\ b.cid = resp[p].id

\* a delete of a sheet committed while an update of the same sheet that adds
\* child rows was open, and the update has ended
C16_Witness ==
    \E p, q \in Procs :
        /\ resp[p].op \in {"delete", "st_delete"} /\ resp[p].status = "ok"
        /\ resp[q].op = "update" /\ resp[q].id = resp[p].id
        /\ resp[q].stamp = -1 /\ resp[q].dirty
        /\ req[q] = Idle

\* the portrait urls of a stored sheet whose file was saved and is gone
GoneFiles(tpl, id) ==
    {chars[tpl][id].f[k] : k \in PortraitFields} \cap {u \in DOMAIN files : ~files[u]}

\* C17 (as stated): a delete that fails changes nothing: after a failed
\* delete the sheet is stored and no portrait url of its slots names a file
\* that has been deleted.
C17_Original ==
    (req[1] = Idle /\ resp[1].op \in {"delete", "st_delete"} /\ resp[1].status = "error") =>
        /\ resp[1].id \in DOMAIN chars[resp[1].tpl]
        /\ GoneFiles(resp[1].tpl, resp[1].id) = {}

\* C18 (as stated): whenever the url stored in a portrait slot changes or the
\* sheet is removed, the file of the slot's previous url is deleted.
C18_Original ==
    [][\A t \in Templates : \A i \in DOMAIN chars[t] : \A k \in PortraitFields :
          LET u == chars[t][i].f[k]
          IN  (/\ u \in DOMAIN files
               /\ i \notin DOMAIN chars'[t] \/ chars'[t][i].f[k] # u) => ~files'[u]]_vars

\* the event kind the audit log gives an operation
EventKind(op) ==
    CASE op = "create" -> "character_create"
      [] op = "update" -> "character_update"
      [] op = "delete" -> "character_delete"
      [] OTHER -> "storyteller_delete_character"

\* C19 (as stated): after every successful create, update and delete, of
\* either template and by owner and privileged principal alike, the audit log
\* holds the event with its kind, the principal and the sheet (unless the
\* audit insert itself fails).
C19_Original ==
    [][(/\ resp'[1] # resp[1] /\ resp'[1].status = "ok"
        /\ resp'[1].op \in {"create", "update", "delete", "st_delete"}
        /\ ~outage) =>
          \E e \in audit' :
              /\ e.event_type = EventKind(resp'[1].op)
              /\ e.user_id = resp'[1].who.id
              /\ e.target_id = resp'[1].id]_vars

\* C20: the audit entry is written only in the step that commits an update,
\* and an update that is answered with success has committed its changes
\* whether or not the audit entry could be written; while the audit insert
\* fails no entry is added.
C20_AuditFailureKeepsChange ==
    [][/\ audit' # audit =>
             /\ req[1] # Idle /\ req[1].op = "update" /\ req[1].pc = "commit"
             /\ resp'[1].status = "ok"
       /\ outage => audit' = audit
       /\ (req[1] # Idle /\ req[1].op = "update" /\ resp'[1].op = "update"
              /\ resp'[1].status = "ok") =>
             /\ chars'[req[1].tpl][req[1].id].f =
                   Flush(chars[req[1].tpl][req[1].id].f, req[1].loaded, req[1].update_data)
             /\ rows' = (rows \ req[1].deleted) \cup req[1].adds]_vars

\* an HTR update changed strength and was answered with success while the
\* audit insert failed: the change is stored and the log has no entry for it
C20_Witness ==
    /\ resp[1].op = "update" /\ resp[1].status = "ok" /\ resp[1].tpl = "htr"
    /\ outage
    /\ "strength" \in DOMAIN resp[1].f
    /\ resp[1].id \in DOMAIN chars["htr"]
    /\ chars["htr"][resp[1].id].f["strength"] = resp[1].f["strength"]
    /\ ~\E e \in audit : e.target_id = resp[1].id


(***************************************************************************)
(* Delete against update: two workers on the sheets of one owner           *)
(***************************************************************************)
ReapFocusSet == {[tpl |-> t, main |-> "life", other |-> "xp_log"] : t \in Templates}

ReapUpdatePayloads ==
    {[f |-> f, c |-> c] :
        f \in OneOrNone("strength", {2}),
        c \in OneOrNone("touchstones", {LifeItem("B"), Value(<<>>)})}

InitReap == Init /\ focus \in ReapFocusSet

NextReap ==
    \/ CreateBegin(1, Player, focus.tpl, [f |-> <<>>, c |-> [x \in {"touchstones"} |-> LifeItem("A")]])
    \/ CreateCommit(1)
    \/ \E p \in Procs, id \in LifeIds : \E raw \in ReapUpdatePayloads :
          UpdateBegin(p, Player, focus.tpl, id, raw)
    \/ \E p \in Procs : UpdateSync(p)
    \/ \E p \in Procs : UpdateResume(p)
    \/ \E p \in Procs : UpdateCommit(p)
    \/ \E p \in Procs : Fault(p)
    \/ \E p \in Procs, who \in {Player, Storyteller}, id \in LifeIds, route \in {"owner", "storyteller"} :
          DeleteBegin(p, who, focus.tpl, id, route)
    \/ \E p \in Procs : DeleteCommit(p)

SpecReap == InitReap /\ [][NextReap]_vars


(***************************************************************************)
(* Claims: validation failures                                             *)
(***************************************************************************)
\* the ranged fields a payload puts out of range
Violated(f) == {k \in DOMAIN f \cap RangedFields : ~FieldInRange(k, f[k])}

\* C21 (as stated): a create or update whose payload breaks several field
\* rules at once is answered with a validation failure that lists every
\* field in violation.
C21_Original ==
    (resp[1].op \in {"create", "update"} /\ Cardinality(Violated(resp[1].f)) >= 2) =>
        /\ resp[1].status = "validation"
        /\ Violated(resp[1].f) \subseteq resp[1].errors


(***************************************************************************)
(* The same update twice: worker 2 repeats what worker 1 was answered      *)
(***************************************************************************)
TwiceFocusSet == FocusSet \cup SheetFocusSet

\* the payloads of the scenario: those of the sheet section, or a list for
\* the collection with or without a scalar field
TwicePayloads ==
    IF focus.main \in Sections THEN SheetPayloads
    ELSE {[f |-> f, c |-> [k \in {focus.main} |-> l]] :
             f \in OneOrNone("strength", {3}), l \in Lists(focus.main)}

TwiceSetups ==
    IF focus.main \in Sections THEN {NoData}
    ELSE {[f |-> <<>>, c |-> c] : c \in OneOrNone(focus.main, SetupLists(focus.main))}

AllIdle == \A p \in Procs : req[p] = Idle

InitTwice == Init /\ focus \in TwiceFocusSet

NextTwice ==
    \/ \E raw \in TwiceSetups : CreateBegin(1, Player, focus.tpl, raw)
    \/ CreateCommit(1)
    \/ \E raw \in TwicePayloads : AllIdle /\ UpdateBegin(1, Player, focus.tpl, 1, raw)
    \/ /\ AllIdle /\ UpdatedOk(1)
       /\ UpdateBegin(2, resp[1].who, resp[1].tpl, resp[1].id, [f |-> resp[1].f, c |-> resp[1].c])
    \/ \E p \in Procs : UpdateSync(p)
    \/ \E p \in Procs : UpdateCommit(p)
    \/ \E p \in Procs : Fault(p)

SpecTwice == InitTwice /\ [][NextTwice]_vars

\* what a read of the sheet can return: the scalar fields and, for each
\* collection, the lists the relationship can load
Observable(ch, db, tpl, id) ==
    [f |-> ch[tpl][id].f,
     c |-> [k \in Range(UpdateColls(tpl)) |-> ReadResults(db, tpl, id, k)]]

\* worker 2 commits the update worker 1 committed as the transaction before
Repeats ==
    /\ CommitsUpdate(2) /\ UpdatedOk(1)
    /\ req[2].raw = [f |-> resp[1].f, c |-> resp[1].c]
    /\ req[2].tpl = resp[1].tpl /\ req[2].id = resp[1].id
    /\ req[2].stamp = resp[1].stamp + 1

CommitsAfter(p, q) ==
    /\ CommitsUpdate(p)
    /\ resp[q].op = "update" /\ resp[q].status = "ok"
    /\ resp[q].tpl = req[p].tpl /\ resp[q].id = req[p].id
    /\ resp[q].stamp > req[p].stamp

\* C23 (as stated): when two concurrent updates of a sheet both commit, every
\* scalar field and every collection the later commit specified holds
\* exactly its values: the stored rows of such a collection are the rows the
\* later update inserted.
C23_Original ==
    [][\A p, q \in Procs :
          CommitsAfter(p, q) =>
              /\ \A c \in DOMAIN req[p].update_data :
                    chars'[req[p].tpl][req[p].id].f[c] = req[p].update_data[c]
              /\ \A k \in DOMAIN req[p].colls :
                    Batches(rows', req[p].tpl, req[p].id, k)
                        = Batch(req[p].tpl, req[p].id, k, req[p].stamp, req[p].colls[k])]_vars

(***************************************************************************)
(* Blood potency: the derived values of a level                            *)
(***************************************************************************)
PotencySlack == 3   \* how far below 0 and above 10 the submitted levels go

BLOOD_POTENCY_VALUES ==
    [b \in 0..10 |->
        [surge           |-> <<1, 2, 2, 3, 3, 4, 4, 5, 5, 6, 6>>[b + 1],
         mend            |-> <<1, 1, 2, 2, 3, 3, 3, 3, 4, 4, 5>>[b + 1],
         power_bonus     |-> <<0, 0, 1, 1, 2, 2, 3, 3, 4, 4, 5>>[b + 1],
         rouse_reroll    |-> <<0, 0, 0, 1, 1, 2, 2, 3, 3, 4, 4>>[b + 1],
         feeding_penalty |-> <<"No penalty", "Animal/Bagged", "Animal/Bagged",
                               "Cold blood", "Cold blood", "Resonance only",
                               "Resonance only", "Slake 1 only", "Slake 1 only",
                               "Slake 1 only", "Slake 0 only">>[b + 1],
         bane_severity   |-> <<0, 1, 1, 2, 2, 3, 3, 4, 4, 5, 5>>[b + 1]]]

min(a, b) == IF a <= b THEN a ELSE b
max(a, b) == IF a >= b THEN a ELSE b

\* the lookup with no clamp before it: dict.get alone
calculate_blood_potency_values_NoClamp(blood_potency) ==
    IF blood_potency \in DOMAIN BLOOD_POTENCY_VALUES
    THEN BLOOD_POTENCY_VALUES[blood_potency]
    ELSE BLOOD_POTENCY_VALUES[0]

calculate_blood_potency_values(blood_potency) ==
    LET bp == max(0, min(10, blood_potency))
    IN  IF bp \in DOMAIN BLOOD_POTENCY_VALUES
        THEN BLOOD_POTENCY_VALUES[bp]
        ELSE BLOOD_POTENCY_VALUES[0]

Levels == (0 - PotencySlack)..(10 + PotencySlack)

\* a caller applies the function to a level and keeps the answer
DerivePotency(p, b) ==
    /\ req[p] = Idle
    /\ resp' = [resp EXCEPT ![p] =
                   Response("derive", "ok", focus.tpl, b, 0,
                            [f |-> calculate_blood_potency_values(b), c |-> <<>>], {})]
    /\ UNCHANGED <<chars, rows, idseq, clock, req, focus, prefs, files, audit, outage>>

InitPotency == Init /\ focus = [tpl |-> "vtm", main |-> "potency", other |-> "none"]
NextPotency == \E p \in Procs, b \in Levels : DerivePotency(p, b)
SpecPotency == InitPotency /\ [][NextPotency]_vars

\* C24: for every integer level b the derived values are the table's row of
\* b when 0 <= b <= 10, the row of 0 when b < 0 and the row of 10 when b > 10.
C24_ClampedRow ==
    \A p \in Procs :
        resp[p].op = "derive" =>
            /\ (0 <= resp[p].id /\ resp[p].id <= 10) => resp[p].f = BLOOD_POTENCY_VALUES[resp[p].id]
            /\ resp[p].id < 0 => resp[p].f = BLOOD_POTENCY_VALUES[0]
            /\ resp[p].id > 10 => resp[p].f = BLOOD_POTENCY_VALUES[10]

C24_Witness ==
    /\ resp[1].op = "derive" /\ resp[1].id > 10
    /\ resp[1].f.surge = 6 /\ resp[1].f.feeding_penalty = "Slake 0 only"
    /\ resp[2].op = "derive" /\ resp[2].id < 0
    /\ resp[2].f.surge = 1 /\ resp[2].f.bane_severity = 0

(***************************************************************************)
(* User preferences: the layout strings                                    *)
(***************************************************************************)
\* A string is the sequence of its comma-separated pieces: a piece is the
\* text of an integer, some other short text, or text longer than 50
\* characters.
Num(n) == [k |-> "int", n |-> n]
Text == [k |-> "text", n |-> 0]
Long == [k |-> "long", n |-> 0]

PrefKeys == {"column_widths_above", "column_widths_below"}

PrefDefault(k) ==
    IF k = "column_widths_above" THEN <<Num(30), Num(35), Num(35)>>
    ELSE <<Num(33), Num(33), Num(34)>>

RECURSIVE sum(_)
sum(widths) == IF widths = <<>> THEN 0 ELSE Head(widths) + sum(Tail(widths))

\* the schema's rule for a layout string (no route applies it)
validate_column_widths(v) ==
    /\ \A i \in DOMAIN v : v[i].k = "int"
    /\ LET widths == [i \in DOMAIN v |-> v[i].n]
       IN  /\ Len(widths) = 3
           /\ sum(widths) = 100
           /\ ~\E i \in DOMAIN widths : widths[i] < 10 \/ widths[i] > 70

\* VARCHAR(50) refuses a longer value
TooLong(v) == \E i \in DOMAIN v : v[i].k = "long"

update_user_preferences(p, who, data) ==
    LET old == IF who.id \in DOMAIN prefs THEN prefs[who.id]
               ELSE [k \in PrefKeys |-> PrefDefault(k)]
        new == [k \in PrefKeys |-> IF k \in DOMAIN data THEN data[k] ELSE old[k]]
        refused == \E k \in PrefKeys : TooLong(new[k])
    IN  /\ req[p] = Idle
        /\ prefs' = IF refused THEN prefs
                    ELSE [u \in DOMAIN prefs \cup {who.id} |->
                             IF u = who.id THEN new ELSE prefs[u]]
        /\ resp' = [resp EXCEPT ![p] =
                       Response("preferences", IF refused THEN "error" ELSE "ok",
                                "none", 0, who.id, [f |-> data, c |-> <<>>], {})]
        /\ UNCHANGED <<chars, rows, idseq, clock, req, focus, files, audit, outage>>

WidthStrings ==
    {<<Num(30), Num(35), Num(35)>>, <<Num(50), Num(50)>>, <<Num(80), Num(10), Num(10)>>,
     <<Num(30), Num(30), Num(30)>>, <<Text, Num(35), Num(35)>>, <<Long>>}
PrefPayloads == UNION {[ks -> WidthStrings] : ks \in SUBSET PrefKeys}

InitPrefs == Init /\ focus = [tpl |-> "vtm", main |-> "preferences", other |-> "none"]
NextPrefs == \E who \in Principals, data \in PrefPayloads : update_user_preferences(1, who, data)
SpecPrefs == InitPrefs /\ [][NextPrefs]_vars

\* C25 (as stated): every stored layout string is three comma-separated
\* integers, each in [10,70], summing to 100, and a preferences update that
\* carries a string breaking this is rejected and leaves the stored
\* preference as it was.
C25_Original ==
    /\ \A u \in DOMAIN prefs : \A k \in PrefKeys : validate_column_widths(prefs[u][k])
    /\ (resp[1].op = "preferences"
          /\ \E k \in DOMAIN resp[1].f : ~validate_column_widths(resp[1].f[k]))
       => resp[1].status # "ok"

(* Claims: storage faults *)
FailsUpdateOf(p) ==
    /\ req[p] # Idle /\ req[p].op = "update"
    /\ req'[p] = Idle /\ resp'[p].status = "error"

\* C26 (as stated): a storage fault during an update rolls the whole
\* transaction back and the caller receives a generic failure: the response
\* never contains the text of the underlying exception.
C26_Original ==
    [][\A p \in Procs :
          FailsUpdateOf(p) =>
              /\ chars' = chars /\ rows' = rows
              /\ "str(e)" \notin resp'[p].errors]_vars

(***************************************************************************)
(* Items with numbers and kinds outside their ranges                       *)
(***************************************************************************)
ItemFocusSet ==
    {[tpl |-> "vtm", main |-> k, other |-> "none"] : k \in {"backgrounds", "disciplines", "xp_log"}}
        \cup {[tpl |-> "htr", main |-> "xp_log", other |-> "none"]}

WildItems(coll) ==
    IF coll = "xp_log"
    THEN {Item(kind, "", amount, TRUE) : kind \in {"add", "spend", "gift"}, amount \in {5, 0}}
    ELSE {Item("A", "", n, TRUE) : n \in {0, 5, 6, -1}}

ItemPayloads ==
    {[f |-> <<>>, c |-> [k \in {focus.main} |-> Value(l)]] :
        l \in SeqsUpTo(WildItems(focus.main), MaxLen)}

InitItems == Init /\ focus \in ItemFocusSet

NextItems ==
    \/ \E raw \in ItemPayloads : CreateBegin(1, Player, focus.tpl, raw)
    \/ CreateCommit(1)
    \/ \E id \in 1..MaxId : \E raw \in ItemPayloads : UpdateBegin(1, Player, focus.tpl, id, raw)
    \/ UpdateSync(1)
    \/ UpdateCommit(1)
    \/ Fault(1)

SpecItems == InitItems /\ [][NextItems]_vars

(* Claims: constraints of child rows *)
ItemInRange(coll, it) ==
    CASE coll \in {"backgrounds", "disciplines"} -> 0 <= it.n /\ it.n <= 5
      [] coll = "xp_log" -> it.name \in {"add", "spend"} /\ it.n > 0
      [] OTHER -> TRUE

\* C27 (as stated): every committed child row satisfies its constraints:
\* dots of a background and level of a discipline in [0,5], kind of an
\* experience entry add or spend and its amount above 0; a create or update
\* that supplies an item breaking one of them stores nothing.
C27_Original ==
    \A b \in rows : \A i \in DOMAIN b.rs : ItemInRange(b.coll, b.rs[i].it)

(***************************************************************************)
(* Creates of one owner on two workers                                     *)
(***************************************************************************)
InitCrowd == Init /\ focus = SlotsFocus

NextCrowd ==
    \/ \E p \in Procs, tpl \in Templates : \E raw \in SlotPayloads :
          CreateBegin(p, Player, tpl, raw)
    \/ \E p \in Procs : CreateCommit(p)
    \/ \E p \in Procs : Fault(p)

SpecCrowd == InitCrowd /\ [][NextCrowd]_vars

\* C28 (as stated): for a non-privileged owner and each template, the number
\* of committed sheets the owner holds never exceeds the cap of 3, also when
\* creates of the owner run concurrently and each reads the count before
\* any of them commits.
C28_Original ==
    \A tpl \in Templates : Cardinality(OwnedOf(tpl, Player)) <= CHARACTER_LIMIT_PER_USER

(***************************************************************************)
(* Updates that name the columns of the root row                           *)
(***************************************************************************)
FrameFocusSet == {[tpl |-> t, main |-> "frame", other |-> "touchstones"] : t \in Templates}

\* what update payloads put under id, user_id, created_at and strength
FrameValue(k) ==
    CASE k = "id" -> {2}
      [] k = "user_id" -> {Storyteller.id}
      [] k = "created_at" -> {7}
      [] OTHER -> {3}

FramePayloads ==
    {[f |-> f, c |-> c] :
        f \in PartialFns({"id", "user_id", "created_at", "strength"}, FrameValue),
        c \in OneOrNone("touchstones", {Value(<<Item("A", "", 1, TRUE)>>)})}

InitFrame == Init /\ focus \in FrameFocusSet

NextFrame ==
    \/ CreateBegin(1, Player, focus.tpl, NoData)
    \/ CreateCommit(1)
    \/ \E who \in Principals, id \in 1..MaxId : \E raw \in FramePayloads :
          UpdateBegin(1, who, focus.tpl, id, raw)
    \/ UpdateSync(1)
    \/ UpdateCommit(1)
    \/ Fault(1)

SpecFrame == InitFrame /\ [][NextFrame]_vars

(* Claims: what an update leaves alone *)
\* id, owner and creation time of every stored sheet
Identity(ch) ==
    [t \in Templates |-> [i \in DOMAIN ch[t] |-> <<ch[t][i].user_id, ch[t][i].created_at>>]]

EndsUpdate(p) == req[p] # Idle /\ req[p].op = "update" /\ req'[p] = Idle

\* C29: no update changes a sheet's id, owner id or creation time, also when
\* its payload carries keys named id, user_id or created_at: every sheet
\* stored before the update is stored after it under the same id with the
\* same owner and creation time.
C29_IdentityKept ==
    [][\A p \in Procs : EndsUpdate(p) => Identity(chars') = Identity(chars)]_vars

C29_Witness ==
    /\ UpdatedOk(1)
    /\ {"id", "user_id", "created_at", "strength"} \subseteq DOMAIN resp[1].f
    /\ resp[1].id \in DOMAIN chars[resp[1].tpl]
    /\ resp[1].f["id"] # resp[1].id
    /\ chars[resp[1].tpl][resp[1].id].user_id # resp[1].f["user_id"]
    /\ chars[resp[1].tpl][resp[1].id].created_at # resp[1].f["created_at"]
    /\ chars[resp[1].tpl][resp[1].id].f["strength"] = resp[1].f["strength"]

(* Claims: failed portrait uploads *)
UploadFails(p) ==
    /\ req[p] = Idle /\ resp'[p] # resp[p]
    /\ resp'[p].op = "upload" /\ resp'[p].status \in {"badimage", "error"}

\* C30 (as stated): a portrait upload that fails while the image is processed
\* or saved, or while the slot update is committed, leaves the slot's url and
\* the file stored before as they were: no slot holds the url of a file the
\* upload has deleted.
C30_Original ==
    [][\A p \in Procs :
          UploadFails(p) =>
              /\ chars' = chars
              /\ \A u \in DOMAIN files : files'[u] = files[u]
              /\ \A k \in PortraitFields :
                    LET u == chars'[resp'[p].tpl][resp'[p].id].f[k]
                    IN  u \in DOMAIN files' => files'[u]]_vars

=============================================================================
